---- MODULE Spec2Model ----
(***************************************************************************)
(* User registration service (src/app/app.py): the validator, the five     *)
(* request handlers and the relational store behind them.                  *)
(*                                                                         *)
(* Text is a sequence of one-character strings, so that the regular        *)
(* expressions and str.upper() are computed character by character.        *)
(* A JSON value is a tagged record; a payload is a function from the keys  *)
(* it carries to JSON values (a key may be absent, or present with null).  *)
(* Each request runs in its own thread with its own session; the threads   *)
(* interleave between two statements sent to the store.                    *)
(***************************************************************************)
EXTENDS Integers, Sequences, FiniteSets, TLC

(* ---------------------------- bounds ----------------------------------- *)
NumThreads == 2      \* threads serving requests at the same time
MaxId == 2           \* largest identifier the store hands out
MaxClock == 1        \* latest value of the clock
MaxRequests == 3     \* write requests received in a run
MaxDeviations == 2   \* fields in which a request body differs from Base

Threads == 1..NumThreads

(* ---------------------------- JSON values ------------------------------ *)
None == [t |-> "null"]
Str(s) == [t |-> "str", v |-> s]
Bool(b) == [t |-> "bool", v |-> b]

(* Python truthiness of a JSON value: `not x` is the negation of this. *)
Truthy(x) ==
    CASE x.t = "null" -> FALSE
      [] x.t = "bool" -> x.v
      [] x.t = "str"  -> Len(x.v) > 0

(* ---------------------------- characters ------------------------------- *)
Digits == {"0", "1", "2", "3", "4", "5", "6", "7", "8", "9"}
Whitespace == {" ", "\t", "\n", "\r"}
LowerCase == <<"a","b","c","d","e","f","g","h","i","j","k","l","m",
               "n","o","p","q","r","s","t","u","v","w","x","y","z">>
UpperCase == <<"A","B","C","D","E","F","G","H","I","J","K","L","M",
               "N","O","P","Q","R","S","T","U","V","W","X","Y","Z">>

upper_char(c) ==
    IF \E i \in 1..26 : LowerCase[i] = c
    THEN UpperCase[CHOOSE i \in 1..26 : LowerCase[i] = c]
    ELSE c

(* str.upper() *)
upper(s) == [i \in 1..Len(s) |-> upper_char(s[i])]

AllDigits(s, from, to) == \A i \in from..to : s[i] \in Digits

(* `$` matches at the end of the text and also just before a final "\n". *)
EndsAt(s, n) == Len(s) = n \/ (Len(s) = n + 1 /\ s[n + 1] = "\n")

(* ---------------------------- validators ------------------------------- *)
(* ^\(\d{2}\)\s\d{4,5}-\d{4}$ *)
validate_phone(phone) ==
    \E n \in {4, 5} :
        /\ EndsAt(phone, 10 + n)
        /\ phone[1] = "("
        /\ AllDigits(phone, 2, 3)
        /\ phone[4] = ")"
        /\ phone[5] \in Whitespace
        /\ AllDigits(phone, 6, 5 + n)
        /\ phone[6 + n] = "-"
        /\ AllDigits(phone, 7 + n, 10 + n)

(* ^\d{5}-\d{3}$ *)
validate_zip_code(zip_code) ==
    /\ EndsAt(zip_code, 9)
    /\ AllDigits(zip_code, 1, 5)
    /\ zip_code[6] = "-"
    /\ AllDigits(zip_code, 7, 9)

valid_states ==
    { <<"A","C">>, <<"A","L">>, <<"A","P">>, <<"A","M">>, <<"B","A">>,
      <<"C","E">>, <<"D","F">>, <<"E","S">>, <<"G","O">>, <<"M","A">>,
      <<"M","T">>, <<"M","S">>, <<"M","G">>, <<"P","A">>, <<"P","B">>,
      <<"P","R">>, <<"P","E">>, <<"P","I">>, <<"R","J">>, <<"R","N">>,
      <<"R","S">>, <<"R","O">>, <<"R","R">>, <<"S","C">>, <<"S","P">>,
      <<"S","E">>, <<"T","O">> }

validate_state(state) == upper(state) \in valid_states

(* The e-mail syntax check of the email_validator library, reduced to the  *)
(* shape local-part@domain with a dotted domain.                           *)
validate_email(email) ==
    \E at \in 1..Len(email) :
        /\ email[at] = "@"
        /\ \A i \in 1..Len(email) : email[i] = "@" => i = at
        /\ at > 1
        /\ at + 1 < Len(email)
        /\ email[at + 1] # "."
        /\ email[Len(email)] # "."
        /\ \E i \in (at + 2)..(Len(email) - 1) : email[i] = "."
        /\ \A i \in 1..Len(email) : email[i] \notin Whitespace

(* required_fields with one field forgotten *)
required_fields_without_city ==
    <<"full_name", "email", "phone", "zip_code", "address",
      "number", "state", "terms_accepted">>

required_fields ==
    <<"full_name", "email", "phone", "zip_code", "address",
      "number", "city", "state", "terms_accepted">>

(* The keys of user_model. *)
FieldNames ==
    {"full_name", "email", "phone", "zip_code", "address",
     "number", "city", "state", "terms_accepted"}

(* `field not in data or data[field] is None` *)
Missing(data, field) == field \notin DOMAIN data \/ data[field] = None

(* ---------------------------- responses -------------------------------- *)
Response(status, message) == [status |-> status, message |-> message]
NoError == Response(0, <<>>)
NoResponse == Response(0, <<"no response yet">>)

MissingField(field) == Response(400, <<"Missing required field", field>>)
InvalidEmailFormat == Response(400, <<"Invalid email format">>)
InvalidPhoneFormat == Response(400, <<"Invalid phone format">>)
InvalidZipFormat == Response(400, <<"Invalid zip code format">>)
InvalidState == Response(400, <<"Invalid state abbreviation">>)
TermsNotAccepted == Response(400, <<"Terms must be accepted">>)
EmailConflict == Response(409, <<"Email already registered">>)
NotFound == Response(404, <<"User not found">>)
InternalError == Response(500, <<"Internal server error">>)
Created == Response(201, <<>>)
Ok == Response(200, <<>>)
NoContent == Response(204, <<>>)

ErrorStatuses == {400, 404, 409, 500}

(* What a handler returns: the route that answered and its result. *)
Reply(op, response) ==
    [op |-> op, status |-> response.status, message |-> response.message]

(* ---------------------------- the store -------------------------------- *)
(* The table is a function from the identifiers in use to rows.            *)
EmptyTable == [i \in {} |-> None]

(* User.query.filter_by(email=...).first(): the identifiers that match. *)
FilterByEmail(table, email) == {i \in DOMAIN table : table[i].email = email}

(* the pre-check without its exclude_user_id test *)
EmailTakenByAnyone(table, email, exclude_user_id) ==
    FilterByEmail(table, email) # {}

(* The e-mail pre-check of validate_user_data. *)
EmailTaken(table, email, exclude_user_id) ==
    \E i \in FilterByEmail(table, email) :
        exclude_user_id = 0 \/ i # exclude_user_id

(* validate_user_data(data, exclude_user_id): the first failing check, or  *)
(* NoError.  exclude_user_id = 0 stands for None (create).                 *)
RECURSIVE FirstMissing(_, _, _)
FirstMissing(data, fields, i) ==
    IF i > Len(fields) THEN ""
    ELSE IF Missing(data, fields[i]) THEN fields[i]
    ELSE FirstMissing(data, fields, i + 1)

(* the checks with terms acceptance tested before the formats *)
FormatChecksTermsFirst(data, table, exclude_user_id) ==
    IF ~Truthy(data["terms_accepted"]) THEN TermsNotAccepted
    ELSE IF ~validate_email(data["email"].v) THEN InvalidEmailFormat
    ELSE IF ~validate_phone(data["phone"].v) THEN InvalidPhoneFormat
    ELSE IF ~validate_zip_code(data["zip_code"].v) THEN InvalidZipFormat
    ELSE IF ~validate_state(data["state"].v) THEN InvalidState
    ELSE IF EmailTaken(table, data["email"], exclude_user_id)
         THEN EmailConflict
    ELSE NoError

(* the checks with terms acceptance left out *)
FormatChecksWithoutTerms(data, table, exclude_user_id) ==
    IF ~validate_email(data["email"].v) THEN InvalidEmailFormat
    ELSE IF ~validate_phone(data["phone"].v) THEN InvalidPhoneFormat
    ELSE IF ~validate_zip_code(data["zip_code"].v) THEN InvalidZipFormat
    ELSE IF ~validate_state(data["state"].v) THEN InvalidState
    ELSE IF EmailTaken(table, data["email"], exclude_user_id)
         THEN EmailConflict
    ELSE NoError

(* The checks of validate_user_data that follow the presence loop. *)
FormatChecks(data, table, exclude_user_id) ==
    IF ~validate_email(data["email"].v) THEN InvalidEmailFormat
    ELSE IF ~validate_phone(data["phone"].v) THEN InvalidPhoneFormat
    ELSE IF ~validate_zip_code(data["zip_code"].v) THEN InvalidZipFormat
    ELSE IF ~validate_state(data["state"].v) THEN InvalidState
    ELSE IF ~Truthy(data["terms_accepted"]) THEN TermsNotAccepted
    ELSE IF EmailTaken(table, data["email"], exclude_user_id)
         THEN EmailConflict
    ELSE NoError

validate_user_data(data, table, exclude_user_id) ==
    IF FirstMissing(data, required_fields, 1) # ""
    THEN MissingField(FirstMissing(data, required_fields, 1))
    ELSE FormatChecks(data, table, exclude_user_id)

(* ---------------------------- rows ------------------------------------- *)
(* User(...) with the state stored as it was sent *)
NewUserStateAsSent(data, now) ==
    [ full_name      |-> data["full_name"],
      email          |-> data["email"],
      phone          |-> data["phone"],
      zip_code       |-> data["zip_code"],
      address        |-> data["address"],
      number         |-> data["number"],
      city           |-> data["city"],
      state          |-> data["state"],
      terms_accepted |-> data["terms_accepted"],
      created_at     |-> now ]

(* User(...) as built by UserList.post; created_at defaults to the clock.  *)
NewUser(data, now) ==
    [ full_name      |-> data["full_name"],
      email          |-> data["email"],
      phone          |-> data["phone"],
      zip_code       |-> data["zip_code"],
      address        |-> data["address"],
      number         |-> data["number"],
      city           |-> data["city"],
      state          |-> Str(upper(data["state"].v)),
      terms_accepted |-> data["terms_accepted"],
      created_at     |-> now ]

(* data[field] of an absent key raises KeyError and None.upper() raises    *)
(* AttributeError; both are raised inside the handlers' try blocks.        *)
ReadRaises(data) ==
    \/ \E f \in FieldNames : f \notin DOMAIN data
    \/ data["state"].t # "str"

(* the assignments of UserResource.put with user.city forgotten *)
UpdatedUserKeepingCity(user, data) ==
    [ full_name      |-> data["full_name"],
      email          |-> data["email"],
      phone          |-> data["phone"],
      zip_code       |-> data["zip_code"],
      address        |-> data["address"],
      number         |-> data["number"],
      city           |-> user.city,
      state          |-> Str(upper(data["state"].v)),
      terms_accepted |-> data["terms_accepted"],
      created_at     |-> user.created_at ]

(* The nine assignments of UserResource.put; created_at is not assigned.   *)
UpdatedUser(user, data) ==
    [ full_name      |-> data["full_name"],
      email          |-> data["email"],
      phone          |-> data["phone"],
      zip_code       |-> data["zip_code"],
      address        |-> data["address"],
      number         |-> data["number"],
      city           |-> data["city"],
      state          |-> Str(upper(data["state"].v)),
      terms_accepted |-> data["terms_accepted"],
      created_at     |-> user.created_at ]

(* id = Column(Integer, primary_key=True): the store assigns the largest   *)
(* identifier in use plus one.                                             *)
Max(S) == CHOOSE m \in S : \A x \in S : x <= m
NextId(table) == IF DOMAIN table = {} THEN 1 ELSE Max(DOMAIN table) + 1

(* a table without the unique constraint *)
NoUniqueConstraint(table, id, email) == FALSE

(* email = Column(String(120), unique=True): a row with identifier id and  *)
(* this e-mail cannot be written while another row holds the e-mail.       *)
UniqueViolation(table, id, email) ==
    \E j \in DOMAIN table : j # id /\ table[j].email = email

(* nullable=False on every data column. *)
NotNullViolation(row) ==
    \E f \in {"full_name", "email", "phone", "zip_code", "address",
              "number", "city", "state", "terms_accepted"} : row[f] = None

InsertRow(table, id, row) == (id :> row) @@ table
UpdateRow(table, id, row) == [table EXCEPT ![id] = row]
(* a DELETE that removes nothing *)
DeleteNoRow(table, id) == table

DeleteRow(table, id) == [i \in DOMAIN table \ {id} |-> table[i]]

(* a failed transaction whose writes stay *)
KeepAttempted(before, attempted) == attempted

(* db.session.rollback(): the failed transaction's writes are discarded.   *)
Rollback(before, attempted) == before

(* ---------------------------- payloads --------------------------------- *)
NameAna == <<"A","n","a">>
EmailA == <<"a","@","x",".","c","o">>
EmailB == <<"b","@","x",".","c","o">>
EmailBad == <<"a",".","x",".","c","o">>
PhoneGood == <<"(","1","1",")"," ","9","1","2","3","4","-","5","6","7","8">>
PhoneBad == <<"1","1"," ","9","1","2","3","4","-","5","6","7","8">>
ZipGood == <<"1","2","3","4","5","-","6","7","8">>
ZipBad == <<"1","2","3","4","5","6","7","8">>
AddressRua == <<"R","u","a">>
Number123A == <<"1","2","3","A">>
CityRio == <<"R","i","o">>

Base ==
    [ full_name      |-> Str(NameAna),
      email          |-> Str(EmailA),
      phone          |-> Str(PhoneGood),
      zip_code       |-> Str(ZipGood),
      address        |-> Str(AddressRua),
      number         |-> Str(Number123A),
      city           |-> Str(CityRio),
      state          |-> Str(<<"R","J">>),
      terms_accepted |-> Bool(TRUE) ]

(* The other values a request may carry in a field. *)
Alternatives(field) ==
    CASE field = "full_name"      -> {None, Str(<<>>)}
      [] field = "email"          -> {None, Str(EmailB), Str(EmailBad)}
      [] field = "phone"          -> {None, Str(PhoneBad)}
      [] field = "zip_code"       -> {None, Str(ZipBad)}
      [] field = "address"        -> {None, Str(<<>>)}
      [] field = "number"         -> {None, Str(<<>>)}
      [] field = "city"           -> {None, Str(<<>>)}
      [] field = "state"          -> {None, Str(<<"s","p">>), Str(<<"X","X">>)}
      [] field = "terms_accepted" -> {None, Bool(FALSE)}

WithoutKey(data, field) == [g \in DOMAIN data \ {field} |-> data[g]]

(* The payloads that differ from Base in one more field than those of S. *)
Vary(S) ==
    S \cup { WithoutKey(d, f) : d \in S, f \in FieldNames }
      \cup UNION { { [d EXCEPT ![f] = x] : x \in Alternatives(f) } :
                   d \in S, f \in FieldNames }

RECURSIVE PayloadsWithin(_)
PayloadsWithin(k) == IF k = 0 THEN {Base} ELSE Vary(PayloadsWithin(k - 1))

(* The bodies of the service runs carry every key and differ from Base in  *)
(* at most one of the fields below.                                        *)
ServiceFields == {"email", "city", "state", "terms_accepted"}
Payloads ==
    {d \in PayloadsWithin(1) :
        /\ \A f \in FieldNames : ~Missing(d, f)
        /\ \A f \in FieldNames \ ServiceFields : d[f] = Base[f]}

(* The bodies of the single-request runs. *)
ValidatorPayloads == PayloadsWithin(MaxDeviations)

(* ---------------------------- state ------------------------------------ *)
VARIABLES
    users,   \* the committed User table
    pend,    \* per thread: the handler it runs and what it holds
    resp,    \* the response most recently returned by a handler
    started, \* the number of write requests received so far
    request  \* the body a client has ready to send (single-request runs)

vars == <<users, pend, resp, started, request>>

NoData == [f \in {} |-> None]
Idle == [pc |-> "idle", id |-> 0, data |-> NoData]
Holding(pc, id, data) == [pc |-> pc, id |-> id, data |-> data]

Ids == 1..MaxId

(* datetime.utcnow() never runs backwards. *)
Times == 0..MaxClock

Init ==
    /\ users = EmptyTable
    /\ pend = [t \in Threads |-> Idle]
    /\ resp = Reply("none", NoResponse)
    /\ started = 0
    /\ request = NoData

(* ---------------------------- UserList.get ----------------------------- *)
RECURSIVE ListFrom(_, _)
ListFrom(table, ids) ==
    IF ids = {} THEN <<>>
    ELSE LET i == CHOOSE m \in ids : \A x \in ids : m <= x
         IN  <<[id |-> i, user |-> table[i]]>> \o ListFrom(table, ids \ {i})

(* User.query.all(), in identifier order *)
UserListBody(table) == ListFrom(table, DOMAIN table)

UserListGet ==
    /\ resp' = Reply("list", Ok)
    /\ UNCHANGED <<users, pend, started, request>>

(* ---------------------------- UserResource.get ------------------------- *)
GetResult(table, id) == IF id \in DOMAIN table THEN Ok ELSE NotFound

UserGet(id) ==
    /\ resp' = Reply("get", GetResult(users, id))
    /\ UNCHANGED <<users, pend, started, request>>

(* ---------------------------- UserList.post ---------------------------- *)
(* request.json and validate_user_data(data) *)
PostValidate(t, data) ==
    /\ pend[t].pc = "idle"
    /\ started < MaxRequests
    /\ started' = started + 1
    /\ LET error == validate_user_data(data, users, 0)
       IN  IF error # NoError
           THEN /\ resp' = Reply("post", error)
                /\ UNCHANGED pend
           ELSE /\ pend' = [pend EXCEPT ![t] = Holding("post_commit", 0, data)]
                /\ UNCHANGED resp
    /\ UNCHANGED <<users, request>>

(* try: User(...); db.session.add(new_user); db.session.commit()           *)
(* except Exception: db.session.rollback()                                 *)
PostCommit(t, now) ==
    /\ pend[t].pc = "post_commit"
    /\ \A i \in DOMAIN users : users[i].created_at <= now
    /\ LET data == pend[t].data
           id == NextId(users)
       IN  IF ReadRaises(data)
           THEN /\ users' = Rollback(users, users)
                /\ resp' = Reply("post", InternalError)
           ELSE LET new_user == NewUser(data, now)
                    failed == \/ UniqueViolation(users, id, new_user.email)
                              \/ NotNullViolation(new_user)
                IN  /\ failed \/ id <= MaxId
                    /\ IF failed
                       THEN /\ users' = Rollback(users,
                                                 InsertRow(users, id, new_user))
                            /\ resp' = Reply("post", InternalError)
                       ELSE /\ users' = InsertRow(users, id, new_user)
                            /\ resp' = Reply("post", Created)
    /\ pend' = [pend EXCEPT ![t] = Idle]
    /\ UNCHANGED <<started, request>>

(* ---------------------------- UserResource.put ------------------------- *)
(* User.query.get(id) *)
PutLookup(t, id) ==
    /\ pend[t].pc = "idle"
    /\ started < MaxRequests
    /\ started' = started + 1
    /\ IF id \notin DOMAIN users
       THEN /\ resp' = Reply("put", NotFound)
            /\ UNCHANGED pend
       ELSE /\ pend' = [pend EXCEPT ![t] = Holding("put_validate", id, NoData)]
            /\ UNCHANGED resp
    /\ UNCHANGED <<users, request>>

(* request.json and validate_user_data(data, exclude_user_id=id) *)
PutValidate(t, data) ==
    /\ pend[t].pc = "put_validate"
    /\ LET error == validate_user_data(data, users, pend[t].id)
       IN  IF error # NoError
           THEN /\ resp' = Reply("put", error)
                /\ pend' = [pend EXCEPT ![t] = Idle]
           ELSE /\ pend' = [pend EXCEPT
                               ![t] = Holding("put_commit", pend[t].id, data)]
                /\ UNCHANGED resp
    /\ UNCHANGED <<users, started, request>>

(* try: the nine assignments; db.session.commit(), which sends             *)
(* UPDATE ... WHERE id = ?  and fails when no row matches                  *)
(* except Exception: db.session.rollback()                                 *)
PutCommit(t) ==
    /\ pend[t].pc = "put_commit"
    /\ LET id == pend[t].id
           data == pend[t].data
       IN  IF ReadRaises(data) \/ id \notin DOMAIN users
           THEN /\ users' = Rollback(users, users)
                /\ resp' = Reply("put", InternalError)
           ELSE LET user == UpdatedUser(users[id], data)
                    failed == \/ UniqueViolation(users, id, user.email)
                              \/ NotNullViolation(user)
                IN  IF failed
                    THEN /\ users' = Rollback(users, UpdateRow(users, id, user))
                         /\ resp' = Reply("put", InternalError)
                    ELSE /\ users' = UpdateRow(users, id, user)
                         /\ resp' = Reply("put", Ok)
    /\ pend' = [pend EXCEPT ![t] = Idle]
    /\ UNCHANGED <<started, request>>

(* ---------------------------- UserResource.delete ---------------------- *)
(* User.query.get(id) *)
DeleteLookup(t, id) ==
    /\ pend[t].pc = "idle"
    /\ started < MaxRequests
    /\ started' = started + 1
    /\ IF id \notin DOMAIN users
       THEN /\ resp' = Reply("delete", NotFound)
            /\ UNCHANGED pend
       ELSE /\ pend' = [pend EXCEPT
                           ![t] = Holding("delete_commit", id, NoData)]
            /\ UNCHANGED resp
    /\ UNCHANGED <<users, request>>

(* db.session.delete(user); db.session.commit(): DELETE ... WHERE id = ? *)
DeleteCommit(t) ==
    /\ pend[t].pc = "delete_commit"
    /\ users' = DeleteRow(users, pend[t].id)
    /\ resp' = Reply("delete", NoContent)
    /\ pend' = [pend EXCEPT ![t] = Idle]
    /\ UNCHANGED <<started, request>>

(* ---------------------------- specifications --------------------------- *)
Next ==
    \/ UserListGet
    \/ \E id \in Ids : UserGet(id)
    \/ \E t \in Threads, data \in Payloads : PostValidate(t, data)
    \/ \E t \in Threads, now \in Times : PostCommit(t, now)
    \/ \E t \in Threads, id \in Ids : PutLookup(t, id)
    \/ \E t \in Threads, data \in Payloads : PutValidate(t, data)
    \/ \E t \in Threads : PutCommit(t)
    \/ \E t \in Threads, id \in Ids : DeleteLookup(t, id)
    \/ \E t \in Threads : DeleteCommit(t)

Spec == Init /\ [][Next]_vars

(* One request on its own: its body is any payload within MaxDeviations   *)
(* fields of Base, and the table is one the service can hold.              *)
UserA == NewUser(Base, 0)
UserB == NewUser([Base EXCEPT !["email"] = Str(EmailB)], 0)
SampleTables ==
    { EmptyTable,
      InsertRow(EmptyTable, 1, UserA),
      InsertRow(InsertRow(EmptyTable, 1, UserA), 2, UserB) }

InitRequest ==
    /\ users \in SampleTables
    /\ pend = [t \in Threads |-> Idle]
    /\ resp = Reply("none", NoResponse)
    /\ started = MaxRequests - 1
    /\ request \in ValidatorPayloads

NextRequest ==
    \/ PostValidate(1, request)
    \/ \E now \in Times : PostCommit(1, now)
    \/ \E id \in Ids : PutLookup(1, id)
    \/ PutValidate(1, request)
    \/ PutCommit(1)

SpecRequest == InitRequest /\ [][NextRequest]_vars

(* ======================================================================= *)
(*                              Properties                                 *)
(* ======================================================================= *)
(* A step in which a handler returns: no thread moves on to a later        *)
(* statement of its handler.                                               *)
Returns == \A t \in Threads : pend'[t] = pend[t] \/ pend'[t] = Idle

(* The validation step of Create or Update by thread t with payload d. *)
Validates(t, d) == PostValidate(t, d) \/ PutValidate(t, d)
Accepted(t, d) ==
    /\ pend'[t].pc \in {"post_commit", "put_commit"}
    /\ pend'[t].data = d
    /\ resp' = resp
Rejected(t, error) ==
    /\ resp'.status = error.status
    /\ resp'.message = error.message
    /\ pend'[t] = Idle
    /\ users' = users
ExcludedId(t) == IF pend[t].pc = "put_validate" THEN pend[t].id ELSE 0

Present(d, f) == f \in DOMAIN d /\ d[f].t # "null"

(* The fifteen checks in the order of the contract, stated one by one. *)
CheckOrder ==
    <<"full_name", "email", "phone", "zip_code", "address",
      "number", "city", "state", "terms_accepted">>
SameIgnoringCase(a, b) ==
    /\ Len(a) = Len(b)
    /\ \A i \in 1..Len(a) : upper_char(a[i]) = upper_char(b[i])
StateIsValid(s) == \E v \in valid_states : SameIgnoringCase(s, v)
CheckFails(k, d, table, excluded) ==
    CASE k \in 1..9 -> ~Present(d, CheckOrder[k])
      [] k = 10 -> Present(d, "email") /\ ~validate_email(d["email"].v)
      [] k = 11 -> Present(d, "phone") /\ ~validate_phone(d["phone"].v)
      [] k = 12 -> Present(d, "zip_code")
                   /\ ~validate_zip_code(d["zip_code"].v)
      [] k = 13 -> Present(d, "state") /\ ~StateIsValid(d["state"].v)
      [] k = 14 -> Present(d, "terms_accepted")
                   /\ d["terms_accepted"] # Bool(TRUE)
      [] k = 15 -> /\ Present(d, "email")
                   /\ \E i \in DOMAIN table :
                        table[i].email = d["email"] /\ i # excluded
ErrorOfCheck(k) ==
    CASE k \in 1..9 -> MissingField(CheckOrder[k])
      [] k = 10 -> InvalidEmailFormat
      [] k = 11 -> InvalidPhoneFormat
      [] k = 12 -> InvalidZipFormat
      [] k = 13 -> InvalidState
      [] k = 14 -> TermsNotAccepted
      [] k = 15 -> EmailConflict
FailingChecks(d, table, excluded) ==
    {k \in 1..15 : CheckFails(k, d, table, excluded)}
Min(S) == CHOOSE m \in S : \A x \in S : m <= x

C1_EmailUnique ==
    \A i, j \in DOMAIN users : i # j => users[i].email # users[j].email

(* C1 witness: a Create passed the pre-check and is about to commit an     *)
(* e-mail that a User stored in the meantime already has.                  *)
C1_Witness ==
    \E t \in Threads :
        /\ pend[t].pc = "post_commit"
        /\ \E i \in DOMAIN users : users[i].email = pend[t].data["email"]

(* C2: a Create or Update that passed the pre-check and whose commit hits  *)
(* the unique constraint returns EmailConflict (409).                      *)
C2_CommitConflictIs409 ==
    [][ \A t \in Threads :
          ( /\ pend[t].pc \in {"post_commit", "put_commit"}
            /\ pend'[t] = Idle
            /\ pend[t].pc = "put_commit" => pend[t].id \in DOMAIN users
            /\ \E j \in DOMAIN users :
                 j # pend[t].id /\ users[j].email = pend[t].data["email"] )
          => resp'.status = 409 ]_vars

FormatsPass(d) ==
    /\ \A f \in FieldNames : Present(d, f)
    /\ validate_email(d["email"].v)
    /\ validate_phone(d["phone"].v)
    /\ validate_zip_code(d["zip_code"].v)
    /\ StateIsValid(d["state"].v)
    /\ d["terms_accepted"] = Bool(TRUE)

(* C5: for a body that passes the format checks, Create returns            *)
(* EmailConflict iff a stored User has that e-mail, Update(id) returns it  *)
(* iff a stored User other than id has it, and an Update that keeps the    *)
(* User's own e-mail succeeds.                                             *)
C5_ConflictIffTaken ==
    [][ \A t \in Threads :
          /\ (Validates(t, request) /\ FormatsPass(request)) =>
                IF \E i \in DOMAIN users :
                      users[i].email = request["email"] /\ i # ExcludedId(t)
                THEN Rejected(t, EmailConflict)
                ELSE Accepted(t, request)
          /\ ( /\ PutCommit(t)
               /\ pend[t].id \in DOMAIN users
               /\ users[pend[t].id].email = pend[t].data["email"] )
             => resp' = Reply("put", Ok) ]_vars

(* C5 witness: with two Users stored, an Update carrying the e-mail of     *)
(* User 1 succeeded, so it was the Update of User 1 itself.                *)
C5_Witness ==
    /\ resp = Reply("put", Ok)
    /\ DOMAIN users = {1, 2}
    /\ request["email"] = Str(EmailA)

AllPresent(d) == \A f \in FieldNames : Present(d, f)
TermsFalse(d) == AllPresent(d) /\ d["terms_accepted"] = Bool(FALSE)
OtherFormatsPass(d) ==
    /\ validate_email(d["email"].v)
    /\ validate_phone(d["phone"].v)
    /\ validate_zip_code(d["zip_code"].v)
    /\ StateIsValid(d["state"].v)

(* C6 as stated: with every field present and terms_accepted false, Create *)
(* and Update fail with TermsNotAccepted whatever the other fields hold.   *)
C6_AlwaysTermsNotAccepted ==
    [][ \A t \in Threads :
          (Validates(t, request) /\ TermsFalse(request))
          => Rejected(t, TermsNotAccepted) ]_vars

(* C6 amended: with every field present and terms_accepted false, Create   *)
(* and Update fail with a 400; the error is TermsNotAccepted when e-mail,  *)
(* phone, zip code and state are valid, and otherwise that of the first    *)
(* of these four that is not.                                              *)
C6_TermsFalseIsRejected ==
    [][ \A t \in Threads :
          (Validates(t, request) /\ TermsFalse(request)) =>
            /\ resp'.status = 400
            /\ pend'[t] = Idle
            /\ users' = users
            /\ IF OtherFormatsPass(request)
               THEN resp'.message = TermsNotAccepted.message
               ELSE resp'.message =
                      ErrorOfCheck(Min(FailingChecks(request, users, 0)
                                       \cap 10..13)).message ]_vars

(* C6 witness: a body with valid formats and terms not accepted was        *)
(* rejected for its terms.                                                 *)
C6_Witness ==
    /\ resp.message = TermsNotAccepted.message
    /\ TermsFalse(request)
    /\ OtherFormatsPass(request)

IsUpperCase(s) ==
    \A i \in 1..Len(s) : \E k \in 1..26 : UpperCase[k] = s[i]
StoredStateOk(user) ==
    /\ user.state.t = "str"
    /\ user.state.v \in valid_states
    /\ IsUpperCase(user.state.v)

(* C7: every stored state is an uppercase valid abbreviation; a Create or  *)
(* Update whose state is valid in any letter case is accepted (its other   *)
(* fields being valid) and stored in uppercase; one whose state is not in  *)
(* the set is never accepted, and is rejected with InvalidState when the   *)
(* checks before the state check pass.                                     *)
C7_StateStoredUppercase ==
    [][ /\ \A i \in DOMAIN users' : StoredStateOk(users'[i])
        /\ \A t \in Threads :
             Validates(t, request) =>
               LET F == FailingChecks(request, users, ExcludedId(t))
               IN  /\ F = {} => Accepted(t, request)
                   /\ 13 \in F => pend'[t] = Idle /\ users' = users
                   /\ (13 \in F /\ F \cap 1..12 = {})
                      => Rejected(t, InvalidState)
        /\ \A t \in Threads :
             ( /\ pend[t].pc \in {"post_commit", "put_commit"}
               /\ pend'[t] = Idle
               /\ resp'.status \in {200, 201} )
             => \E i \in DOMAIN users' :
                  /\ users'[i].email = pend[t].data["email"]
                  /\ SameIgnoringCase(users'[i].state.v,
                                      pend[t].data["state"].v) ]_vars

(* C7 witness: a body with state "sp" was stored with state "SP". *)
C7_Witness ==
    /\ Present(request, "state")
    /\ request["state"] = Str(<<"s", "p">>)
    /\ \E i \in DOMAIN users :
         users[i].state = Str(<<"S", "P">>) /\ users[i].email = request["email"]

TextFields == {"full_name", "address", "number", "city"}

(* C8 as stated: every stored User has non-empty full_name, address,       *)
(* number and city.                                                        *)
C8_TextNonEmpty ==
    \A i \in DOMAIN users : \A f \in TextFields : users[i][f].v # <<>>

(* C8 amended: every stored User has a text value, possibly empty, for     *)
(* full_name, address, number and city; a Create or Update whose body      *)
(* lacks one of them, or carries null for it, is rejected with             *)
(* MissingField and stores or modifies nothing.                            *)
C8_TextNotNull ==
    [][ /\ \A i \in DOMAIN users' :
             \A f \in TextFields : users'[i][f].t = "str"
        /\ \A t \in Threads :
             ( /\ Validates(t, request)
               /\ \E f \in TextFields : ~Present(request, f) )
             => /\ resp'.status = 400
                /\ resp'.message[1] = "Missing required field"
                /\ pend'[t] = Idle
                /\ users' = users ]_vars

(* C8 witness: a body with null or no city was rejected as missing it. *)
C8_Witness ==
    /\ resp.message = MissingField("city").message
    /\ ~Present(request, "city")

(* C9: a successful Delete(id) leaves no User id in the table, so that     *)
(* Get(id) then returns NotFound and List does not show it; Get(id) and    *)
(* Delete(id) of an identifier not in the table return NotFound.           *)
C9_DeletedIsGone ==
    [][ /\ \A t \in Threads :
             DeleteCommit(t) =>
               /\ resp' = Reply("delete", NoContent)
               /\ pend[t].id \notin DOMAIN users'
               /\ \A k \in 1..Len(UserListBody(users')) :
                    UserListBody(users')[k].id # pend[t].id
        /\ \A id \in Ids :
             (UserGet(id) /\ id \notin DOMAIN users)
             => resp' = Reply("get", NotFound)
        /\ \A t \in Threads, id \in Ids :
             (DeleteLookup(t, id) /\ id \notin DOMAIN users)
             => /\ resp' = Reply("delete", NotFound)
                /\ pend'[t] = Idle
                /\ users' = users ]_vars

(* C9 witness: a Delete succeeded and left the table empty. *)
C9_Witness ==
    /\ resp = Reply("delete", NoContent)
    /\ users = EmptyTable

====
